---- MODULE Spec2Model ----
(***************************************************************************)
(* State-machine model of generate_csharp_files.py: a catalog of           *)
(* (relative path, content) pairs built by dictionary key assignment, then *)
(* written below base_path by a print / mkdir / open / write / print loop. *)
(* The filesystem calls are modelled by what the interpreter and the       *)
(* kernel do with the paths the script hands them (lexical pathlib         *)
(* parents, kernel resolution of "..", open(..., 'w') truncation).         *)
(***************************************************************************)
EXTENDS Integers, Sequences, FiniteSets, TLC

(* ---------------- bounds of the model ---------------- *)

\* greatest number of csharp_files[...] = ... assignments in one catalog
MaxDefs == 3

\* greatest number of runs of the script over the same catalog and base
MaxRuns == 2

(* ---------------- paths and catalog inputs ---------------- *)

\* base_path = Path(...): an absolute path, here the single component "d"
base_path == <<"d">>

\* relative paths (split at "/") that the catalog definitions draw from
RelPaths ==
    { <<"a">>, <<"b">>, <<"a", "b">>, <<".", "b">>,
      <<"a", "..", "b">>, <<"..", "a">> }

\* the literal assigned by the k-th definition (all literals differ)
ContentOf(k) == <<k>>

\* content of a file that exists before the first run
OldData == <<0>>

Dir == [kind |-> "dir", data |-> <<>>]
File(d) == [kind |-> "file", data |-> d]

\* filesystems the first run may start from (root always exists)
InitialFilesystems ==
    { (<<>> :> Dir),
      (<<>> :> Dir) @@ (<<"d">> :> Dir),
      (<<>> :> Dir) @@ (<<"a">> :> File(OldData)) @@ (<<"d">> :> Dir)
          @@ (<<"d", "b">> :> File(OldData)),
      (<<>> :> Dir) @@ (<<"d">> :> Dir) @@ (<<"d", "a">> :> File(OldData)),
      (<<>> :> Dir) @@ (<<"d">> :> File(OldData)) }

(* ---------------- catalog construction ---------------- *)

\* position of key in the ordered mapping d, 0 when absent
RECURSIVE KeyIndex(_, _, _)
KeyIndex(d, key, k) ==
    IF k > Len(d) THEN 0
    ELSE IF d[k].path = key THEN k
    ELSE KeyIndex(d, key, k + 1)

\* d[key] = val on a dict: a new key is appended, an existing key keeps its
\* position and takes the new value
DictSet(d, key, val) ==
    LET j == KeyIndex(d, key, 1) IN
    IF j = 0 THEN Append(d, [path |-> key, content |-> val])
    ELSE [d EXCEPT ![j].content = val]

\* csharp_files = {} followed by the first n assignments of ds
RECURSIVE BuildCatalog(_, _)
BuildCatalog(ds, n) ==
    IF n = 0 THEN <<>>
    ELSE DictSet(BuildCatalog(ds, n - 1), ds[n].path, ds[n].content)

(* ---------------- pathlib and kernel operations ---------------- *)

\* base_path / file_path: pathlib drops "." components and keeps ".."
JoinPath(base, rel) == base \o SelectSeq(rel, LAMBDA s : s # ".")

\* full_path.parent: lexical, the last component is dropped
Front(p) == SubSeq(p, 1, Len(p) - 1)

\* kernel walk of directory components segs starting in directory cur
RECURSIVE WalkDir(_, _, _)
WalkDir(f, cur, segs) ==
    IF segs = <<>> THEN [err |-> "", at |-> cur]
    ELSE IF Head(segs) = ".."
         THEN WalkDir(f, Front(cur), Tail(segs))
         ELSE LET nxt == Append(cur, Head(segs)) IN
              IF nxt \notin DOMAIN f THEN [err |-> "FileNotFoundError", at |-> cur]
              ELSE IF f[nxt].kind # "dir"
                   THEN [err |-> "NotADirectoryError", at |-> cur]
                   ELSE WalkDir(f, nxt, Tail(segs))

\* Path.is_dir(): the whole path resolves to a directory
IsDir(f, p) == WalkDir(f, <<>>, p).err = ""

\* os.mkdir(p)
OsMkdir(f, p) ==
    IF p = <<>> THEN [err |-> "FileExistsError", fs |-> f]
    ELSE LET w == WalkDir(f, <<>>, Front(p)) IN
         IF w.err # "" THEN [err |-> w.err, fs |-> f]
         ELSE IF p[Len(p)] = ".." THEN [err |-> "FileExistsError", fs |-> f]
         ELSE LET t == Append(w.at, p[Len(p)]) IN
              IF t \in DOMAIN f THEN [err |-> "FileExistsError", fs |-> f]
              ELSE [err |-> "", fs |-> f @@ (t :> Dir)]

\* Path.mkdir(parents=False, exist_ok=True), the retry after the parents
MkdirNoParents(f, p) ==
    LET r == OsMkdir(f, p) IN
    IF r.err = "" THEN r
    ELSE IF r.err # "FileNotFoundError" /\ IsDir(f, p) THEN [err |-> "", fs |-> f]
    ELSE r

\* Path.mkdir(parents=True, exist_ok=True)
RECURSIVE PathMkdir(_, _)
PathMkdir(f, p) ==
    LET r == OsMkdir(f, p) IN
    IF r.err = "" THEN r
    ELSE IF r.err = "FileNotFoundError"
         THEN IF p = <<>> THEN r
              ELSE LET up == PathMkdir(f, Front(p)) IN
                   IF up.err # "" THEN up ELSE MkdirNoParents(up.fs, p)
         ELSE IF IsDir(f, p) THEN [err |-> "", fs |-> f] ELSE r

\* open(p, 'a'): as open(p, 'w') but an existing file keeps its data
OsOpenAppend(f, p) ==
    LET w == WalkDir(f, <<>>, Front(p)) IN
    IF w.err # "" THEN [err |-> w.err, fs |-> f, fd |-> <<>>]
    ELSE IF p[Len(p)] = ".." THEN [err |-> "IsADirectoryError", fs |-> f, fd |-> <<>>]
    ELSE LET t == Append(w.at, p[Len(p)]) IN
         IF t \notin DOMAIN f THEN [err |-> "", fs |-> f @@ (t :> File(<<>>)), fd |-> t]
         ELSE IF f[t].kind = "dir" THEN [err |-> "IsADirectoryError", fs |-> f, fd |-> <<>>]
         ELSE [err |-> "", fs |-> f, fd |-> t]

\* open(p, 'w'): creates the file or truncates it to length zero
OsOpenW(f, p) ==
    LET w == WalkDir(f, <<>>, Front(p)) IN
    IF w.err # "" THEN [err |-> w.err, fs |-> f, fd |-> <<>>]
    ELSE IF p[Len(p)] = ".." THEN [err |-> "IsADirectoryError", fs |-> f, fd |-> <<>>]
    ELSE LET t == Append(w.at, p[Len(p)]) IN
         IF t \notin DOMAIN f THEN [err |-> "", fs |-> f @@ (t :> File(<<>>)), fd |-> t]
         ELSE IF f[t].kind = "dir" THEN [err |-> "IsADirectoryError", fs |-> f, fd |-> <<>>]
         ELSE [err |-> "", fs |-> [f EXCEPT ![t] = File(<<>>)], fd |-> t]

\* f.write(content) and the close that ends the with block: the data goes
\* to the end of what the open file holds
FileWrite(f, t, content) == [f EXCEPT ![t] = File(f[t].data \o content)]

\* stat of a path: the node it resolves to, or a node of kind "none"
Lookup(f, p) ==
    IF p = <<>> THEN f[<<>>]
    ELSE LET w == WalkDir(f, <<>>, Front(p)) IN
         IF w.err # "" THEN [kind |-> "none", data |-> <<>>]
         ELSE IF p[Len(p)] = ".." THEN Dir
         ELSE LET t == Append(w.at, p[Len(p)]) IN
              IF t \in DOMAIN f THEN f[t] ELSE [kind |-> "none", data |-> <<>>]

(* ---------------- state ---------------- *)

VARIABLES
    defs,          \* the assignments that build the catalog, in source order
    csharp_files,  \* the catalog: ordered mapping path -> content
    stdoutLimit,   \* number of print calls stdout accepts in one process
    fs0,           \* filesystem before the first run
    fs,            \* filesystem: resolved path -> node
    pc,            \* statement the script is at
    i,             \* number of catalog entries the for loop has taken
    full_path,     \* full_path of the current entry
    fd,            \* node of the file the with block holds open
    printed,       \* print calls completed in this process
    log,           \* prints and filesystem calls completed in this run
    exc,           \* uncaught exception that ended the run, "" if none
    exitStatus,    \* process exit status, -1 while running
    run,           \* number of the current run
    ends           \* filesystem at the end of each finished run

vars == <<defs, csharp_files, stdoutLimit, fs0, fs, pc, i, full_path, fd,
          printed, log, exc, exitStatus, run, ends>>

inputs == <<defs, csharp_files, stdoutLimit, fs0>>

Event(e, p, n) == [ev |-> e, path |-> p, n |-> n]

\* the catalog entry the loop takes k-th, last first
EntryAtReversed(cat, k) == cat[Len(cat) + 1 - k]

\* the catalog entry the loop takes k-th: dict insertion order
EntryAt(cat, k) == cat[k]

DefSeqs == UNION { [1..n -> RelPaths] : n \in 0..MaxDefs }

Init ==
    /\ \E ps \in DefSeqs :
          defs = [k \in 1..Len(ps) |-> [path |-> ps[k], content |-> ContentOf(k)]]
    /\ csharp_files = BuildCatalog(defs, Len(defs))
    /\ stdoutLimit \in 0..(Len(csharp_files) + 3)
    /\ fs0 \in InitialFilesystems
    /\ fs = fs0
    /\ pc = "header"
    /\ i = 0
    /\ full_path = <<>>
    /\ fd = <<>>
    /\ printed = 0
    /\ log = <<>>
    /\ exc = ""
    /\ exitStatus = -1
    /\ run = 1
    /\ ends = <<>>

(* ---------------- the script, statement by statement ---------------- *)

\* an exception handled by "continue": the loop goes on with the next entry
RaiseSwallowed(e, newfs) ==
    /\ exc' = e
    /\ fs' = newfs
    /\ IF pc \in {"mkdir", "open", "write", "created"}
       THEN pc' = "for" /\ exitStatus' = exitStatus /\ ends' = ends
       ELSE pc' = "crashed" /\ exitStatus' = 1 /\ ends' = Append(ends, newfs)
    /\ UNCHANGED <<inputs, i, full_path, fd, printed, log, run>>

\* an exception nobody catches: traceback, interpreter exits with status 1
Raise(e, newfs) ==
    /\ exc' = e
    /\ fs' = newfs
    /\ pc' = "crashed"
    /\ exitStatus' = 1
    /\ ends' = Append(ends, newfs)
    /\ UNCHANGED <<inputs, i, full_path, fd, printed, log, run>>

\* print(...): one more line on stdout, or OSError once stdout is exhausted
StdoutPrint(ev, nextpc) ==
    IF printed < stdoutLimit
    THEN /\ printed' = printed + 1
         /\ log' = Append(log, ev)
         /\ pc' = nextpc
         /\ UNCHANGED <<inputs, fs, i, full_path, fd, exc, exitStatus, run, ends>>
    ELSE Raise("OSError", fs)

PrintHeader ==
    /\ pc = "header"
    /\ StdoutPrint(Event("header", <<>>, 0), "total")

PrintTotal ==
    /\ pc = "total"
    /\ StdoutPrint(Event("total", <<>>, Len(csharp_files)), "for")

ForNext ==
    /\ pc = "for"
    /\ IF i < Len(csharp_files)
       THEN /\ i' = i + 1
            /\ full_path' = JoinPath(base_path, EntryAt(csharp_files, i + 1).path)
            /\ pc' = "mkdir"
       ELSE /\ pc' = "banner"
            /\ UNCHANGED <<i, full_path>>
    /\ UNCHANGED <<inputs, fs, fd, printed, log, exc, exitStatus, run, ends>>

Mkdir ==
    /\ pc = "mkdir"
    /\ LET r == PathMkdir(fs, Front(full_path)) IN
       IF r.err = ""
       THEN /\ fs' = r.fs
            /\ pc' = "open"
            /\ log' = Append(log, Event("mkdir", EntryAt(csharp_files, i).path, 0))
            /\ UNCHANGED <<inputs, i, full_path, fd, printed, exc, exitStatus, run, ends>>
       ELSE Raise(r.err, r.fs)

Open ==
    /\ pc = "open"
    /\ LET r == OsOpenW(fs, full_path) IN
       IF r.err = ""
       THEN /\ fs' = r.fs
            /\ fd' = r.fd
            /\ pc' = "write"
            /\ log' = Append(log, Event("open", EntryAt(csharp_files, i).path, 0))
            /\ UNCHANGED <<inputs, i, full_path, printed, exc, exitStatus, run, ends>>
       ELSE Raise(r.err, r.fs)

Write ==
    /\ pc = "write"
    /\ fs' = FileWrite(fs, fd, EntryAt(csharp_files, i).content)
    /\ fd' = <<>>
    /\ pc' = "created"
    /\ log' = Append(log, Event("write", EntryAt(csharp_files, i).path, 0))
    /\ UNCHANGED <<inputs, i, full_path, printed, exc, exitStatus, run, ends>>

PrintCreated ==
    /\ pc = "created"
    /\ StdoutPrint(Event("created", EntryAt(csharp_files, i).path, 0), "for")

PrintBanner ==
    /\ pc = "banner"
    /\ IF printed < stdoutLimit
       THEN /\ printed' = printed + 1
            /\ log' = Append(log, Event("banner", <<>>, 0))
            /\ pc' = "done"
            /\ exitStatus' = 0
            /\ ends' = Append(ends, fs)
            /\ UNCHANGED <<inputs, fs, i, full_path, fd, exc, run>>
       ELSE Raise("OSError", fs)

Running == pc \notin {"done", "crashed", "killed"}

\* the process is terminated from outside between two statements
Interrupt ==
    /\ Running
    /\ pc' = "killed"
    /\ exitStatus' = 137
    /\ UNCHANGED <<inputs, fs, i, full_path, fd, printed, log, exc, run, ends>>

\* the script is started again with the same catalog, base and stdout
Rerun ==
    /\ pc \in {"done", "crashed"}
    /\ run < MaxRuns
    /\ run' = run + 1
    /\ pc' = "header"
    /\ i' = 0
    /\ full_path' = <<>>
    /\ fd' = <<>>
    /\ printed' = 0
    /\ log' = <<>>
    /\ exc' = ""
    /\ exitStatus' = -1
    /\ UNCHANGED <<inputs, fs, ends>>

Next ==
    \/ PrintHeader
    \/ PrintTotal
    \/ ForNext
    \/ Mkdir
    \/ Open
    \/ Write
    \/ PrintCreated
    \/ PrintBanner
    \/ Interrupt
    \/ Rerun

Spec == Init /\ [][Next]_vars

(* ---------------- vocabulary of the properties ---------------- *)

NumEntries == Len(csharp_files)

\* the script has ended by itself: after the banner or with a traceback
Finished == pc \in {"done", "crashed"}

\* the run ended with an exception of mkdir or open, raised for entry i
EntryError == exc \notin {"", "OSError"}

\* the filesystem the current run started from
RunStart == IF run = 1 THEN fs0 ELSE ends[run - 1]

FullPathOf(rel) == JoinPath(base_path, rel)

Under(base, p) == Len(p) >= Len(base) /\ SubSeq(p, 1, Len(base)) = base

Logged(e) == \E j \in 1..Len(log) : log[j].ev = e

LoggedFor(e, rel) == \E j \in 1..Len(log) : log[j].ev = e /\ log[j].path = rel

\* lexical normal form of a relative path: "." dropped, "x/.." cancelled
RECURSIVE Normalize(_, _)
Normalize(done, rest) ==
    IF rest = <<>> THEN done
    ELSE IF Head(rest) = "." THEN Normalize(done, Tail(rest))
    ELSE IF Head(rest) = ".." /\ done # <<>> /\ done[Len(done)] # ".."
         THEN Normalize(Front(done), Tail(rest))
         ELSE Normalize(Append(done, Head(rest)), Tail(rest))

\* the loop of the script with every print removed
RECURSIVE QuietRun(_, _, _)
QuietRun(f, cat, k) ==
    IF k > Len(cat) THEN f
    ELSE LET p == JoinPath(base_path, cat[k].path)
             m == PathMkdir(f, Front(p))
         IN  IF m.err # "" THEN m.fs
             ELSE LET o == OsOpenW(m.fs, p) IN
                  IF o.err # "" THEN o.fs
                  ELSE QuietRun(FileWrite(o.fs, o.fd, cat[k].content), cat, k + 1)

\* the events of a run in which nothing fails
RECURSIVE EntryEvents(_, _)
EntryEvents(cat, k) ==
    IF k > Len(cat) THEN <<>>
    ELSE << Event("mkdir", cat[k].path, 0), Event("open", cat[k].path, 0),
            Event("write", cat[k].path, 0), Event("created", cat[k].path, 0) >>
         \o EntryEvents(cat, k + 1)

ExpectedLog ==
    << Event("header", <<>>, 0), Event("total", <<>>, NumEntries) >>
    \o EntryEvents(csharp_files, 1) \o << Event("banner", <<>>, 0) >>

(* ---------------- the claims ---------------- *)

\* an attempt of entry k on the present filesystem would raise nothing
NoOwnError(k) ==
    LET p == FullPathOf(csharp_files[k].path)
        m == PathMkdir(fs, Front(p))
    IN  m.err = "" /\ OsOpenW(m.fs, p).err = ""

\* C1 (Completeness): when a run has finished (no print having failed),
\* every catalog entry whose mkdir/open/write did not raise, and would not,
\* has a regular file at base_path/path that holds exactly the content the
\* catalog holds for that path.
C1_Completeness ==
    (Finished /\ exc # "OSError") =>
        \A k \in 1..NumEntries :
            (~(EntryError /\ k = i) /\ NoOwnError(k)) =>
                Lookup(fs, FullPathOf(csharp_files[k].path))
                    = File(csharp_files[k].content)

\* C2 (Isolation of failures): when mkdir or the write of entry K has failed,
\* every other entry that has no error of its own has been attempted and
\* holds its content by the end of the run.
C2_FailureIsolation ==
    (Finished /\ EntryError) =>
        \A k \in 1..NumEntries :
            (k # i /\ NoOwnError(k)) =>
                /\ k <= i
                /\ Lookup(fs, FullPathOf(csharp_files[k].path)).kind = "file"

\* C3 (Path containment): in every reachable state, nothing outside base_path
\* has been created or written: every node outside base_path existed before
\* the first run and is unchanged.
C3_PathContainment ==
    \A p \in DOMAIN fs :
        ~Under(base_path, p) => (p \in DOMAIN fs0 /\ fs[p] = fs0[p])

\* C4 (Last-write-wins): when two definitions share a normalized path, after
\* every completed run (the first and each repetition) the file at that path
\* holds the content of the last such definition in definition order.
C4_LastDefinitionWins ==
    pc = "done" =>
        \A j \in 1..Len(defs) : \A k \in 1..Len(defs) :
            ( /\ j < k
              /\ Normalize(<<>>, defs[j].path) = Normalize(<<>>, defs[k].path)
              /\ \A m \in (k + 1)..Len(defs) :
                     Normalize(<<>>, defs[m].path) # Normalize(<<>>, defs[k].path) )
            => Lookup(fs, FullPathOf(defs[k].path)) = File(defs[k].content)

\* C5 (Idempotence): every repetition of the run over the same catalog and
\* base leaves the filesystem (directories, files, contents) that the first
\* run left.
C5_Idempotent ==
    \A k \in 1..Len(ends) : ends[k] = ends[1]

\* C5 witness: a second run has ended after a first run that changed the
\* filesystem and overwrote an existing file.
C5_Witness ==
    /\ Len(ends) >= 2
    /\ pc = "done"
    /\ \E p \in DOMAIN fs0 : fs0[p].kind = "file" /\ fs[p] # fs0[p]

\* C6 (No silent success): a run in which mkdir or open raised for an entry
\* never prints the banner and has a non-zero exit status once it has ended;
\* the banner is printed only in runs that wrote every catalog entry.
C6_NoSilentSuccess ==
    /\ EntryError => (~Logged("banner") /\ (~Running => exitStatus # 0))
    /\ Logged("banner") =>
           \A k \in 1..NumEntries : LoggedFor("write", csharp_files[k].path)

\* C6 witness: the run was ended by a failing entry that is not the last one.
C6_Witness ==
    pc = "crashed" /\ EntryError /\ i < NumEntries /\ Logged("write")

\* C7 (Count accuracy): in every finished run, also one in which an entry
\* failed, the announced total equals the number of entries attempted.
C7_CountAccuracy ==
    Finished =>
        \A j \in 1..Len(log) : log[j].ev = "total" => log[j].n = i

\* C8 (Reporter non-interference): the first run ends with the filesystem
\* that the same loop without any print produces from the same start,
\* whatever each print did.
C8_ReporterNonInterference ==
    (Finished /\ run = 1) => fs = QuietRun(fs0, csharp_files, 1)

\* C9 (Consistency under interruption): after an interruption between two
\* statements every file holds its complete content from before the run or
\* the complete content of a catalog entry.
C9_ConsistentWhenInterrupted ==
    pc = "killed" =>
        \A p \in DOMAIN fs :
            fs[p].kind = "file" =>
                \/ (p \in DOMAIN RunStart /\ fs[p] = RunStart[p])
                \/ \E k \in 1..NumEntries : fs[p].data = csharp_files[k].content

\* C10 (Event ordering): the events of a run are a prefix of: header, total,
\* then per entry in catalog order mkdir, open, write, confirmation, then the
\* banner; nothing on disk changes before the total is announced; the parent
\* directories exist when the file is opened and the file holds its content
\* when the confirmation is printed.
C10_EventOrder ==
    /\ Len(log) <= Len(ExpectedLog)
    /\ log = SubSeq(ExpectedLog, 1, Len(log))
    /\ ~Logged("total") => fs = RunStart
    /\ pc = "open" => IsDir(fs, Front(full_path))
    /\ pc = "created" =>
           Lookup(fs, full_path) = File(EntryAt(csharp_files, i).content)

\* C10 witness: a run over at least two entries with different paths has
\* printed the banner.
C10_Witness ==
    pc = "done" /\ NumEntries >= 2 /\ log = ExpectedLog

====
